---- MODULE Spec2Model ----
(***************************************************************************)
(* The SystemCheck page of src/app/system-check.tsx: three device checks   *)
(* (camera, microphone, network), the readiness gate over them and the     *)
(* unmount cleanup.  A React state setter is modelled as the assignment it *)
(* requests and the render that follows it as part of the same step; a     *)
(* ref is a variable of its own.  The browser is the environment: it       *)
(* grants or rejects getUserMedia, runs animation-frame callbacks and      *)
(* fires timers, also after the component has been unmounted.  Of the      *)
(* platform calls only getUserMedia is taken to fail.                      *)
(***************************************************************************)
EXTENDS Integers, Sequences, FiniteSets, TLC

\* ------------------------------------------------------------------ bounds
\* Clicks on "Start Camera Test" and "Start Microphone Test", taken together,
\* per page view.
MaxStarts == 2
\* Math.random() is drawn from the grid {0, 1/RandDen, ..., (RandDen-1)/RandDen}.
RandDen == 100

\* ------------------------------------------------------- program constants
MinWidth == 480
MinHeight == 480
MinFrameRate == 24
MaxByte == 255
MicThresholdDb == -40

Checks == {"camera", "microphone", "network"}
Statuses == {"idle", "testing", "passed", "failed"}

\* Negotiated track settings <<width, height, frameRate>> the browser may
\* report: each of the three just below, at and above its minimum.
CameraSettings ==
    {MinWidth - 1, MinWidth, MinWidth + 160}
        \X {MinHeight - 1, MinHeight, MinHeight + 240}
        \X {MinFrameRate - 1, MinFrameRate, MinFrameRate + 6}
\* The two outcomes of the quality gate, for the interleaved specification.
CoarseCameraSettings ==
    {<<MinWidth, MinHeight, MinFrameRate>>, <<MinWidth, MinHeight, MinFrameRate - 1>>}

\* Math.max(...dataArray) of a Uint8Array: a byte.  Silence and the values
\* up to the first one above the -40 dB threshold.
Volumes == {0, 1, 2, 3}
\* The two values on either side of the threshold, for the interleaved
\* specification.
CoarseVolumes == {2, 3}

\* Values getUserMedia rejects with: DOMException objects, which are
\* instances of Error.
PermissionDenied == [isError |-> TRUE, message |-> "Permission denied"]
Rejections == {PermissionDenied}

\* Numerators, over RandDen, of the three values Math.random() returns to one
\* network test: the least value and the greatest below 1.
RandomDraws == {<<0, 0, 0>>, <<RandDen - 1, RandDen - 1, RandDen - 1>>}

VARIABLES
    mounted,            \* the component is mounted (cleanup has not run)
    testStatus,         \* useState<TestStatus>
    cameraEnabled,      \* useState(false)
    micEnabled,         \* useState(false)
    micVolume,          \* useState(0): percent, held as numerator over MaxByte
    networkResults,     \* useState<NetworkResults | null>: <<>> is null
    cameraError,        \* useState("")
    micError,           \* useState("")
    networkError,       \* useState("")
    videoSrcObject,     \* videoRef.current.srcObject: a stream id, 0 when unset
    streamRef,          \* a stream id, 0 is null
    audioContextRef,    \* the microphone attempt whose context it holds, 0 is null
    analyserRef,        \* the microphone attempt whose analyser it holds, 0 is null
    micTestTimeoutRef,  \* the microphone attempt whose timer it holds, 0 is null
    isMicCheckingRef,   \* useRef(false)
    streams,            \* every MediaStream getUserMedia has returned
    cameraClicks,       \* calls of startCamera so far
    cameraRequests,     \* camera getUserMedia promises still pending
    micAttempts,        \* one record per call of startMicrophone
    timers,             \* armed setTimeout timers, in arming order
    view                \* what the last render showed

vars == <<mounted, testStatus, cameraEnabled, micEnabled, micVolume,
          networkResults, cameraError, micError, networkError, videoSrcObject,
          streamRef, audioContextRef, analyserRef, micTestTimeoutRef,
          isMicCheckingRef, streams, cameraClicks, cameraRequests, micAttempts,
          timers, view>>

cameraVars == <<cameraEnabled, cameraError, videoSrcObject, cameraClicks, cameraRequests>>
micStateVars == <<micEnabled, micVolume, micError>>
micRefVars == <<audioContextRef, analyserRef, micTestTimeoutRef, isMicCheckingRef>>
networkVars == <<networkResults, networkError>>

\* ------------------------------------------------------------ pure helpers
Max(a, b) == IF a >= b THEN a ELSE b

RECURSIVE Pow10(_)
Pow10(n) == IF n = 0 THEN 1 ELSE 10 * Pow10(n - 1)

RemoveAt(s, i) == [j \in 1..(Len(s) - 1) |-> IF j < i THEN s[j] ELSE s[j + 1]]

\* The gate with the network conjunct forgotten.
allTestsPassedWithoutNetwork(ts) ==
    /\ ts.camera = "passed"
    /\ ts.microphone = "passed"

\* allTestsPassed, as a function of the status record it is computed from.
allTestsPassed(ts) ==
    /\ ts.camera = "passed"
    /\ ts.microphone = "passed"
    /\ ts.network = "passed"

\* The status line with the microphone and network tests in the wrong order.
getStatusMessageNetworkFirst(ts) ==
    IF ts.camera # "passed" THEN "Camera must be turned on and tested"
    ELSE IF ts.network # "passed" THEN "Run the network test"
    ELSE IF ts.microphone # "passed" THEN "Microphone must be tested"
    ELSE "All systems ready"

getStatusMessage(ts) ==
    IF ts.camera # "passed" THEN "Camera must be turned on and tested"
    ELSE IF ts.microphone # "passed" THEN "Microphone must be tested"
    ELSE IF ts.network # "passed" THEN "Run the network test"
    ELSE "All systems ready"

\* The status line and the Start Interview button of one render.
Render(ts) == [message |-> getStatusMessage(ts), startDisabled |-> ~allTestsPassed(ts)]

\* The catch block always showing its fixed text.
catchMessageFallbackOnly(error, fallback) == fallback

\* error instanceof Error ? error.message : fallback
catchMessage(error, fallback) == IF error.isError THEN error.message ELSE fallback

\* The quality gate with strict comparisons.
meetsCameraMinimumsStrict(w, h, r) == w > MinWidth /\ h > MinHeight /\ r > MinFrameRate

\* The quality gate of startCamera on the negotiated settings.
meetsCameraMinimums(w, h, r) == w >= MinWidth /\ h >= MinHeight /\ r >= MinFrameRate

qualityError(w, h, r) ==
    [isError |-> TRUE,
     message |-> "Camera quality insufficient: " \o ToString(w) \o "x" \o ToString(h)
                 \o " at " \o ToString(r) \o "fps"]

\* (volume / 255) * 100, kept exact as the numerator over MaxByte.
normalizedVolume(volume) == volume * 100

\* The level computed as a power ratio, 10 * Math.log10(maxVolume / 255).
dbLevelAboveThresholdPower(maxVolume) ==
    /\ maxVolume > 0
    /\ maxVolume * Pow10((0 - MicThresholdDb) \div 10) > MaxByte

\* 20 * Math.log10(maxVolume / 255) > -40.  log10(0) is -Infinity, which is
\* not above the threshold; for maxVolume > 0 the comparison is
\* maxVolume / 255 > 10^(-40/20), that is maxVolume * 10^2 > 255.
dbLevelAboveThreshold(maxVolume) ==
    /\ maxVolume > 0
    /\ maxVolume * Pow10((0 - MicThresholdDb) \div 20) > MaxByte

\* The draw taken over span + 1 values, both ends included.
randomIntInclusive(draw, span, base) == ((draw * (span + 1)) \div RandDen) + base

\* Math.floor(Math.random() * span) + base, for Math.random() = draw / RandDen.
randomInt(draw, span, base) == ((draw * span) \div RandDen) + base

\* --------------------------------------------------------------- the page
Init ==
    /\ mounted = TRUE
    /\ testStatus = [camera |-> "idle", microphone |-> "idle", network |-> "idle"]
    /\ cameraEnabled = FALSE
    /\ micEnabled = FALSE
    /\ micVolume = 0
    /\ networkResults = <<>>
    /\ cameraError = ""
    /\ micError = ""
    /\ networkError = ""
    /\ videoSrcObject = 0
    /\ streamRef = 0
    /\ audioContextRef = 0
    /\ analyserRef = 0
    /\ micTestTimeoutRef = 0
    /\ isMicCheckingRef = FALSE
    /\ streams = <<>>
    /\ cameraClicks = 0
    /\ cameraRequests = 0
    /\ micAttempts = <<>>
    /\ timers = <<>>
    /\ view = Render(testStatus)

\* The camera button never disabled.
startCameraNeverDisabled == FALSE

\* <Button onClick={startCamera} disabled={cameraEnabled}>
startCameraDisabled == cameraEnabled

\* The microphone button disabled only while its test runs.
startMicrophoneDisabledWhileTesting == testStatus.microphone = "testing"

\* <Button onClick={startMicrophone} disabled={micEnabled}>
startMicrophoneDisabled == micEnabled

\* The Run Network Test button hidden only while a run is in progress.
runNetworkTestShownUnlessTesting == testStatus.network # "testing"

\* {testStatus.network === "idle" && <Button onClick={runNetworkTest}>}
runNetworkTestShown == testStatus.network = "idle"

\* startCamera up to its await.
StartCamera ==
    /\ mounted
    /\ ~startCameraDisabled
    /\ cameraClicks + Len(micAttempts) < MaxStarts
    /\ testStatus' = [testStatus EXCEPT !.camera = "testing"]
    /\ cameraClicks' = cameraClicks + 1
    /\ cameraRequests' = cameraRequests + 1
    /\ view' = Render(testStatus')
    /\ UNCHANGED <<mounted, cameraEnabled, cameraError, videoSrcObject, streamRef,
                   streams, micAttempts, timers>>
    /\ UNCHANGED <<micStateVars, micRefVars, networkVars>>

\* startCamera after getUserMedia resolved with a stream whose video track
\* reports the settings w x h at r fps.
CameraGranted(w, h, r) ==
    /\ cameraRequests > 0
    /\ cameraRequests' = cameraRequests - 1
    /\ streams' = Append(streams, [kind |-> "video", live |-> TRUE])
    /\ streamRef' = Len(streams')
    /\ videoSrcObject' = IF mounted THEN Len(streams') ELSE videoSrcObject
    /\ IF meetsCameraMinimums(w, h, r)
       THEN /\ cameraEnabled' = TRUE
            /\ testStatus' = [testStatus EXCEPT !.camera = "passed"]
            /\ cameraError' = ""
       ELSE /\ cameraError' = catchMessage(qualityError(w, h, r), "Camera access failed")
            /\ testStatus' = [testStatus EXCEPT !.camera = "failed"]
            /\ UNCHANGED cameraEnabled
    /\ view' = Render(testStatus')
    /\ UNCHANGED <<mounted, cameraClicks, micAttempts, timers>>
    /\ UNCHANGED <<micStateVars, micRefVars, networkVars>>

\* startCamera after getUserMedia rejected with error.
CameraDenied(error) ==
    /\ cameraRequests > 0
    /\ cameraRequests' = cameraRequests - 1
    /\ cameraError' = catchMessage(error, "Camera access failed")
    /\ testStatus' = [testStatus EXCEPT !.camera = "failed"]
    /\ view' = Render(testStatus')
    /\ UNCHANGED <<mounted, cameraEnabled, videoSrcObject, cameraClicks, streamRef,
                   streams, micAttempts, timers>>
    /\ UNCHANGED <<micStateVars, micRefVars, networkVars>>

\* startMicrophone up to its await.
StartMicrophone ==
    /\ mounted
    /\ ~startMicrophoneDisabled
    /\ cameraClicks + Len(micAttempts) < MaxStarts
    /\ testStatus' = [testStatus EXCEPT !.microphone = "testing"]
    /\ micAttempts' = Append(micAttempts,
           [pc |-> "requesting", maxVolume |-> 0, raf |-> FALSE, context |-> "none"])
    /\ view' = Render(testStatus')
    /\ UNCHANGED <<mounted, streamRef, streams, timers>>
    /\ UNCHANGED <<cameraVars, micStateVars, micRefVars, networkVars>>

\* startMicrophone of attempt a after getUserMedia resolved: the analyser is
\* built, the refs are set, checkVolume() runs once (reading volume) and
\* schedules itself, and the verdict timer is armed.
MicGranted(a, volume) ==
    /\ a \in 1..Len(micAttempts)
    /\ micAttempts[a].pc = "requesting"
    /\ streams' = Append(streams, [kind |-> "audio", live |-> TRUE])
    /\ audioContextRef' = a
    /\ analyserRef' = a
    /\ streamRef' = Len(streams')
    /\ isMicCheckingRef' = TRUE
    /\ micEnabled' = TRUE
    /\ micVolume' = normalizedVolume(volume)
    /\ micAttempts' = [micAttempts EXCEPT ![a] =
           [pc |-> "sampling", maxVolume |-> Max(0, volume), raf |-> TRUE,
            context |-> "running"]]
    /\ micTestTimeoutRef' = a
    /\ timers' = Append(timers, <<"mic", a>>)
    /\ UNCHANGED <<mounted, testStatus, micError, view>>
    /\ UNCHANGED <<cameraVars, networkVars>>

\* startMicrophone of attempt a after getUserMedia rejected with error.
MicDenied(a, error) ==
    /\ a \in 1..Len(micAttempts)
    /\ micAttempts[a].pc = "requesting"
    /\ micAttempts' = [micAttempts EXCEPT ![a].pc = "rejected"]
    /\ micError' = catchMessage(error, "Microphone access failed")
    /\ testStatus' = [testStatus EXCEPT !.microphone = "failed"]
    /\ view' = Render(testStatus')
    /\ UNCHANGED <<mounted, micEnabled, micVolume, streamRef, streams, timers>>
    /\ UNCHANGED <<cameraVars, micRefVars, networkVars>>

\* The animation-frame callback checkVolume of attempt a, the analyser
\* reporting volume as the largest byte.
MicFrame(a, volume) ==
    /\ a \in 1..Len(micAttempts)
    /\ micAttempts[a].raf
    /\ IF ~isMicCheckingRef
       THEN /\ micAttempts' = [micAttempts EXCEPT ![a].raf = FALSE]
            /\ UNCHANGED micVolume
       ELSE /\ micVolume' = IF analyserRef # 0 THEN normalizedVolume(volume) ELSE micVolume
            /\ micAttempts' = [micAttempts EXCEPT ![a].maxVolume =
                   IF analyserRef # 0 THEN Max(@, volume) ELSE @]
    /\ UNCHANGED <<mounted, testStatus, micEnabled, micError, streamRef, streams,
                   timers, view>>
    /\ UNCHANGED <<cameraVars, micRefVars, networkVars>>

\* The timer callback with the else branch of the verdict left out: a peak
\* below the threshold ends the sampling but reports nothing.
MicTimerFiresPassOnly(a) ==
    /\ timers # <<>>
    /\ Head(timers) = <<"mic", a>>
    /\ timers' = Tail(timers)
    /\ isMicCheckingRef' = FALSE
    /\ micAttempts' = [micAttempts EXCEPT ![a].pc = "settled"]
    /\ IF dbLevelAboveThreshold(micAttempts[a].maxVolume)
       THEN /\ testStatus' = [testStatus EXCEPT !.microphone = "passed"]
            /\ micError' = ""
       ELSE UNCHANGED <<testStatus, micError>>
    /\ view' = Render(testStatus')
    /\ UNCHANGED <<mounted, micEnabled, micVolume, streamRef, streams,
                   audioContextRef, analyserRef, micTestTimeoutRef>>
    /\ UNCHANGED <<cameraVars, networkVars>>

\* The 5000 ms timer of attempt a.  Timers of equal delay fire in arming
\* order and the network timer is shorter, so it fires only when it is the
\* oldest armed timer.
MicTimerFires(a) ==
    /\ timers # <<>>
    /\ Head(timers) = <<"mic", a>>
    /\ timers' = Tail(timers)
    /\ isMicCheckingRef' = FALSE
    /\ micAttempts' = [micAttempts EXCEPT ![a].pc = "settled"]
    /\ IF dbLevelAboveThreshold(micAttempts[a].maxVolume)
       THEN /\ testStatus' = [testStatus EXCEPT !.microphone = "passed"]
            /\ micError' = ""
       ELSE /\ testStatus' = [testStatus EXCEPT !.microphone = "failed"]
            /\ micError' = "Microphone input too quiet (below -40 dB)"
    /\ view' = Render(testStatus')
    /\ UNCHANGED <<mounted, micEnabled, micVolume, streamRef, streams,
                   audioContextRef, analyserRef, micTestTimeoutRef>>
    /\ UNCHANGED <<cameraVars, networkVars>>

\* runNetworkTest up to its await; the button is rendered only while idle.
RunNetworkTest ==
    /\ mounted
    /\ runNetworkTestShown
    /\ testStatus' = [testStatus EXCEPT !.network = "testing"]
    /\ networkError' = ""
    /\ timers' = Append(timers, <<"net", 0>>)
    /\ view' = Render(testStatus')
    /\ UNCHANGED <<mounted, networkResults, streamRef, streams, micAttempts>>
    /\ UNCHANGED <<cameraVars, micStateVars, micRefVars>>

\* runNetworkTest after its 3000 ms timer resolved the promise; d, u and p
\* are the three draws of Math.random().  The promise never rejects and
\* nothing in the try block throws, so the catch branch is never taken.
NetworkTimerFires(d, u, p) ==
    /\ \E i \in 1..Len(timers) :
          /\ timers[i] = <<"net", 0>>
          /\ timers' = RemoveAt(timers, i)
    /\ networkResults' = <<[download |-> randomInt(d, 50, 25),
                            upload |-> randomInt(u, 20, 10),
                            ping |-> randomInt(p, 50, 20)]>>
    /\ testStatus' = [testStatus EXCEPT !.network = "passed"]
    /\ view' = Render(testStatus')
    /\ UNCHANGED <<mounted, networkError, streamRef, streams, micAttempts>>
    /\ UNCHANGED <<cameraVars, micStateVars, micRefVars>>

\* The cleanup of the useEffect: the component unmounts.
Unmount ==
    /\ mounted
    /\ mounted' = FALSE
    /\ streams' = IF streamRef # 0
                  THEN [streams EXCEPT ![streamRef].live = FALSE]
                  ELSE streams
    /\ micAttempts' = IF audioContextRef # 0
                      THEN [micAttempts EXCEPT ![audioContextRef].context = "closed"]
                      ELSE micAttempts
    /\ timers' = IF micTestTimeoutRef # 0
                 THEN SelectSeq(timers, LAMBDA t : t # <<"mic", micTestTimeoutRef>>)
                 ELSE timers
    /\ isMicCheckingRef' = FALSE
    /\ UNCHANGED <<testStatus, streamRef, audioContextRef, analyserRef,
                   micTestTimeoutRef, view>>
    /\ UNCHANGED <<cameraVars, micStateVars, networkVars>>

\* All three checks and the unmount, interleaved.
Next ==
    \/ StartCamera
    \/ \E s \in CoarseCameraSettings : CameraGranted(s[1], s[2], s[3])
    \/ \E error \in Rejections : CameraDenied(error)
    \/ StartMicrophone
    \/ \E a \in 1..MaxStarts, volume \in CoarseVolumes : MicGranted(a, volume)
    \/ \E a \in 1..MaxStarts, error \in Rejections : MicDenied(a, error)
    \/ \E a \in 1..MaxStarts, volume \in CoarseVolumes : MicFrame(a, volume)
    \/ \E a \in 1..MaxStarts : MicTimerFires(a)
    \/ RunNetworkTest
    \/ \E draw \in RandomDraws : NetworkTimerFires(draw[1], draw[2], draw[3])
    \/ Unmount

Spec == Init /\ [][Next]_vars

\* The camera card alone, over the whole grid of negotiated settings.
NextCamera ==
    \/ StartCamera
    \/ \E s \in CameraSettings : CameraGranted(s[1], s[2], s[3])
    \/ \E error \in Rejections : CameraDenied(error)
    \/ Unmount

SpecCamera == Init /\ [][NextCamera]_vars

\* The microphone card alone, over every sample value of Volumes.
NextMic ==
    \/ StartMicrophone
    \/ \E a \in 1..MaxStarts, volume \in Volumes : MicGranted(a, volume)
    \/ \E a \in 1..MaxStarts, error \in Rejections : MicDenied(a, error)
    \/ \E a \in 1..MaxStarts, volume \in Volumes : MicFrame(a, volume)
    \/ \E a \in 1..MaxStarts : MicTimerFires(a)
    \/ Unmount

SpecMic == Init /\ [][NextMic]_vars

\* The render of the status line and the Start Interview button, for every
\* value of the status record.
InitRender ==
    /\ mounted = TRUE
    /\ testStatus \in [Checks -> Statuses]
    /\ cameraEnabled = FALSE
    /\ micEnabled = FALSE
    /\ micVolume = 0
    /\ networkResults = <<>>
    /\ cameraError = ""
    /\ micError = ""
    /\ networkError = ""
    /\ videoSrcObject = 0
    /\ streamRef = 0
    /\ audioContextRef = 0
    /\ analyserRef = 0
    /\ micTestTimeoutRef = 0
    /\ isMicCheckingRef = FALSE
    /\ streams = <<>>
    /\ cameraClicks = 0
    /\ cameraRequests = 0
    /\ micAttempts = <<>>
    /\ timers = <<>>
    /\ view = [message |-> "", startDisabled |-> TRUE]

RenderView ==
    /\ view' = Render(testStatus)
    /\ UNCHANGED <<mounted, testStatus, streamRef, streams, micAttempts, timers>>
    /\ UNCHANGED <<cameraVars, micStateVars, micRefVars, networkVars>>

NextRender == RenderView

SpecRender == InitRender /\ [][NextRender]_vars

\* ------------------------------------------------------------------ claims
AllPassed == \A c \in Checks : testStatus[c] = "passed"

\* C1: in every reachable state allTestsPassed is true exactly when the
\* camera, microphone and network statuses are all "passed", it is false
\* whenever one of them is idle, testing or failed, and the Start Interview
\* button is enabled exactly when all three are "passed".
AggregateReadiness ==
    /\ allTestsPassed(testStatus) <=> AllPassed
    /\ (\E c \in Checks : testStatus[c] \in {"idle", "testing", "failed"})
           => ~allTestsPassed(testStatus)
    /\ ~view.startDisabled <=> AllPassed

AggregateReadinessWitness ==
    /\ mounted
    /\ AllPassed
    /\ ~view.startDisabled

\* C2: for every combination of the three statuses the rendered status line
\* names the first check that is not "passed" in the order camera,
\* microphone, network, and reads "All systems ready" exactly when all
\* three are "passed", which is exactly when the button is enabled.
StatusMessageNamesFirstUnpassed ==
    view.message # "" =>
        /\ testStatus.camera # "passed"
               => view.message = "Camera must be turned on and tested"
        /\ (testStatus.camera = "passed" /\ testStatus.microphone # "passed")
               => view.message = "Microphone must be tested"
        /\ (testStatus.camera = "passed" /\ testStatus.microphone = "passed"
               /\ testStatus.network # "passed")
               => view.message = "Run the network test"
        /\ view.message = "All systems ready" <=> AllPassed
        /\ view.message = "All systems ready" <=> ~view.startDisabled

StatusMessageWitness ==
    /\ view.message = "Microphone must be tested"
    /\ testStatus.microphone = "failed"
    /\ testStatus.network = "testing"

\* C3: a granted camera attempt whose settings reach 480 x 480 at 24 fps sets
\* the camera status to "passed" and clears cameraError; one whose settings
\* miss any of the three sets the status to "failed" and cameraError to the
\* message built from the measured width, height and frame rate.
CameraGrantedVerdict ==
    [][\A s \in CameraSettings :
          CameraGranted(s[1], s[2], s[3]) =>
              IF s[1] >= 480 /\ s[2] >= 480 /\ s[3] >= 24
              THEN /\ testStatus'.camera = "passed"
                   /\ cameraError' = ""
              ELSE /\ testStatus'.camera = "failed"
                   /\ cameraError' = "Camera quality insufficient: " \o ToString(s[1])
                          \o "x" \o ToString(s[2]) \o " at " \o ToString(s[3]) \o "fps"]_vars

\* An attempt at exactly the minimums has passed and a later one, a frame
\* per second short, has failed.
CameraGrantedVerdictWitness ==
    /\ cameraEnabled
    /\ Len(streams) = 2
    /\ testStatus.camera = "failed"
    /\ cameraError = "Camera quality insufficient: 480x480 at 23fps"

DeniedStep ==
    /\ \A error \in Rejections :
          CameraDenied(error) =>
              /\ testStatus'.camera = "failed"
              /\ cameraError' = error.message
    /\ \A a \in 1..MaxStarts, error \in Rejections :
          MicDenied(a, error) =>
              /\ testStatus'.microphone = "failed"
              /\ micError' = error.message
              /\ ~micAttempts'[a].raf
              /\ timers' = timers
              /\ micTestTimeoutRef' = micTestTimeoutRef
              /\ isMicCheckingRef' = isMicCheckingRef

\* C4: a camera or microphone attempt whose getUserMedia rejects sets its
\* check to "failed" (never "passed") with the text of the rejection, and a
\* rejected microphone attempt starts no sampling loop and arms no timer.
DeniedAttemptFails == [][DeniedStep]_vars

DeniedAttemptFailsWitness ==
    /\ testStatus.camera = "failed"
    /\ cameraError = "Permission denied"
    /\ testStatus.microphone = "failed"
    /\ micError = "Permission denied"
    /\ Len(micAttempts) = 1
    /\ ~micAttempts[1].raf
    /\ timers = <<>>

\* On every byte the level 20*log10(max/255) is above -40 dB exactly from 3 on.
ThresholdIsThree == \A m \in 0..MaxByte : dbLevelAboveThreshold(m) <=> m >= 3

MicVerdictStep ==
    /\ \A a \in 1..MaxStarts :
          MicTimerFires(a) =>
              IF micAttempts[a].maxVolume >= 3
              THEN /\ testStatus'.microphone = "passed"
                   /\ micError' = ""
              ELSE /\ testStatus'.microphone = "failed"
                   /\ micError' = "Microphone input too quiet (below -40 dB)"
    /\ \A a \in 1..MaxStarts, volume \in Volumes :
          (MicFrame(a, volume) /\ isMicCheckingRef) =>
              /\ micAttempts'[a].maxVolume >= volume
              /\ micAttempts'[a].maxVolume >= micAttempts[a].maxVolume
              /\ micAttempts'[a].maxVolume \in {volume, micAttempts[a].maxVolume}
    /\ \A a \in 1..MaxStarts, volume \in Volumes :
          MicGranted(a, volume) => micAttempts'[a].maxVolume = volume

\* C5: when the verdict timer of a microphone attempt fires, the check
\* passes exactly when that attempt's running maximum is at least 3 (above
\* -40 dB) and fails with the too-quiet message otherwise, so 0, 1 and 2
\* fail; the running maximum is the largest sample the attempt has read.
MicVerdictByPeak == []ThresholdIsThree /\ [][MicVerdictStep]_vars

\* One attempt has failed on a peak of 2 and an overlapping one has then
\* passed on a peak of 3.
MicVerdictByPeakWitness ==
    /\ Len(micAttempts) = 2
    /\ micAttempts[1].pc = "settled"
    /\ micAttempts[2].pc = "settled"
    /\ micAttempts[1].maxVolume = 2
    /\ micAttempts[2].maxVolume = 3
    /\ testStatus.microphone = "passed"

TornDownWhileTesting == ~mounted /\ testStatus.microphone = "testing"

QuietAfterTeardownStep ==
    TornDownWhileTesting =>
        /\ UNCHANGED <<micVolume, micEnabled, micError>>
        /\ testStatus'.microphone = testStatus.microphone
        /\ \A a \in 1..Len(micAttempts) :
              /\ micAttempts'[a].maxVolume = micAttempts[a].maxVolume
              /\ micAttempts'[a].raf => micAttempts[a].raf
              /\ ~MicTimerFires(a)
        /\ isMicCheckingRef' = FALSE

\* C6: once the component is torn down while the microphone status is
\* "testing", no sample is taken, no animation-frame callback is scheduled,
\* no verdict timer fires and micVolume, micEnabled, the microphone status
\* and micError are not set again.
QuietAfterTeardown == [][QuietAfterTeardownStep]_vars

\* C7: after teardown every stream getUserMedia has returned has been
\* stopped and every audio context that was created has been closed.
AllReleasedAfterTeardown ==
    ~mounted =>
        /\ \A i \in 1..Len(streams) : ~streams[i].live
        /\ \A a \in 1..Len(micAttempts) : micAttempts[a].context # "running"

ForwardOnlyStep ==
    \A c \in Checks :
        testStatus'[c] # testStatus[c] =>
            <<testStatus[c], testStatus'[c]>> \in
                {<<"idle", "testing">>, <<"testing", "passed">>, <<"testing", "failed">>}

\* C8 as stated: each status changes only along idle -> testing,
\* testing -> passed and testing -> failed.
StatusForwardOnly == [][ForwardOnlyStep]_vars

NoRegressStep ==
    /\ \A c \in Checks :
          /\ testStatus'[c] = "idle" => testStatus[c] = "idle"
          /\ testStatus[c] = "idle" => testStatus'[c] \in {"idle", "testing"}
          /\ ~(testStatus[c] = "passed" /\ testStatus'[c] = "testing")
    /\ testStatus'.network # testStatus.network =>
          <<testStatus.network, testStatus'.network>> \in
              {<<"idle", "testing">>, <<"testing", "passed">>}

\* C8 as amended: no status returns to "idle", "idle" is left only for
\* "testing", "passed" is never followed by "testing", and the network
\* status changes only along idle -> testing -> passed.
StatusNeverRegresses == [][NoRegressStep]_vars

\* The camera has been started again after a failed attempt.
StatusNeverRegressesWitness ==
    /\ mounted
    /\ cameraClicks = 2
    /\ cameraRequests = 1
    /\ testStatus.camera = "testing"
    /\ cameraError = "Permission denied"

\* Every value of Math.random() on the grid gives numbers within the ranges.
DrawsWithinRanges ==
    \A draw \in 0..(RandDen - 1) :
        /\ randomInt(draw, 50, 25) \in 25..74
        /\ randomInt(draw, 20, 10) \in 10..29
        /\ randomInt(draw, 50, 20) \in 20..69

NetworkResultsInRange ==
    testStatus.network = "passed" =>
        /\ Len(networkResults) = 1
        /\ networkResults[1].download \in 25..74
        /\ networkResults[1].upload \in 10..29
        /\ networkResults[1].ping \in 20..69

NetworkPassStep ==
    (testStatus'.network = "passed" /\ testStatus.network # "passed") =>
        /\ testStatus.network = "testing"
        /\ \E i \in 1..Len(timers) : timers[i] = <<"net", 0>>
        /\ \A i \in 1..Len(timers') : timers'[i] # <<"net", 0>>

\* C9: whenever the network status is "passed", networkResults is set with
\* download in 25..74, upload in 10..29 and ping in 20..69, and the status
\* becomes "passed" only from "testing", by the firing of the delay timer
\* that the start of the test armed.
NetworkPassedAfterDelay ==
    /\ []DrawsWithinRanges
    /\ []NetworkResultsInRange
    /\ [][NetworkPassStep]_vars

NetworkPassedAfterDelayWitness ==
    /\ testStatus.network = "passed"
    /\ networkResults = <<[download |-> 74, upload |-> 29, ping |-> 69]>>
    /\ \A i \in 1..Len(timers) : timers[i] # <<"net", 0>>

\* C10 as stated: once a camera or microphone attempt has been granted a
\* stream, the start control of that check is disabled.
StartDisabledOnceGranted ==
    \A i \in 1..Len(streams) :
        /\ streams[i].kind = "video" => startCameraDisabled
        /\ streams[i].kind = "audio" => startMicrophoneDisabled

StartControlStep ==
    /\ startCameraDisabled => startCameraDisabled'
    /\ startMicrophoneDisabled => startMicrophoneDisabled'
    /\ \A a \in 1..MaxStarts, volume \in CoarseVolumes :
          MicGranted(a, volume) => startMicrophoneDisabled'
    /\ \A a \in 1..MaxStarts :
          MicTimerFires(a) => startMicrophoneDisabled'
    /\ \A s \in CoarseCameraSettings :
          CameraGranted(s[1], s[2], s[3]) =>
              (startCameraDisabled' <=>
                   (startCameraDisabled \/ (s[1] >= 480 /\ s[2] >= 480 /\ s[3] >= 24)))

\* C10 as amended: a start control that is disabled stays disabled; the
\* microphone control is disabled from the moment an attempt has been
\* granted a stream and has started sampling, also when the attempt ends
\* "failed"; the camera control is disabled by a granted attempt only when
\* that attempt passes the quality gate, and is left as it was otherwise.
StartControlOnceDisabled == [][StartControlStep]_vars

\* The microphone has failed as too quiet and cannot be started again,
\* while the camera, granted a stream that failed the quality gate, can.
StartControlOnceDisabledWitness ==
    /\ mounted
    /\ testStatus.microphone = "failed"
    /\ micError = "Microphone input too quiet (below -40 dB)"
    /\ startMicrophoneDisabled
    /\ testStatus.camera = "failed"
    /\ \E i \in 1..Len(streams) : streams[i].kind = "video"
    /\ ~startCameraDisabled

MicInFlight == {a \in 1..Len(micAttempts) : micAttempts[a].pc \in {"requesting", "sampling"}}

OneAttemptStep ==
    /\ cameraRequests' > cameraRequests => cameraRequests = 0
    /\ Len(micAttempts') > Len(micAttempts) => MicInFlight = {}
    /\ cameraRequests' <= 1
    /\ Cardinality({a \in 1..Len(micAttempts') : micAttempts'[a].pc = "requesting"}) <= 1
    /\ Cardinality({a \in 1..Len(micAttempts') : micAttempts'[a].raf}) <= 1
    /\ Cardinality({i \in 1..Len(timers') : timers'[i][1] = "mic"}) <= 1

\* C11: a camera or microphone check is started only when no attempt of the
\* same check is in flight, so each check has at most one pending access
\* request, at most one sampling loop and at most one verdict timer.
OneAttemptInFlight == [][OneAttemptStep]_vars

CameraStep ==
    \/ StartCamera
    \/ \E s \in CoarseCameraSettings : CameraGranted(s[1], s[2], s[3])
    \/ \E error \in Rejections : CameraDenied(error)

MicrophoneStep ==
    \/ StartMicrophone
    \/ \E a \in 1..MaxStarts, volume \in CoarseVolumes : MicGranted(a, volume)
    \/ \E a \in 1..MaxStarts, error \in Rejections : MicDenied(a, error)
    \/ \E a \in 1..MaxStarts, volume \in CoarseVolumes : MicFrame(a, volume)
    \/ \E a \in 1..MaxStarts : MicTimerFires(a)

NetworkStep ==
    \/ RunNetworkTest
    \/ \E draw \in RandomDraws : NetworkTimerFires(draw[1], draw[2], draw[3])

\* The stream streamRef holds is of the given kind and the step lets go of it.
DropsHeldStream(kind) ==
    /\ streamRef # 0
    /\ streams[streamRef].kind = kind
    /\ streamRef' # streamRef

IndependentStep ==
    /\ CameraStep =>
          /\ testStatus'.microphone = testStatus.microphone
          /\ testStatus'.network = testStatus.network
          /\ UNCHANGED <<micError, micVolume, micEnabled, networkError, networkResults>>
          /\ ~DropsHeldStream("audio")
    /\ MicrophoneStep =>
          /\ testStatus'.camera = testStatus.camera
          /\ testStatus'.network = testStatus.network
          /\ UNCHANGED <<cameraError, cameraEnabled, networkError, networkResults>>
          /\ ~DropsHeldStream("video")
    /\ NetworkStep =>
          /\ testStatus'.camera = testStatus.camera
          /\ testStatus'.microphone = testStatus.microphone
          /\ UNCHANGED <<cameraError, cameraEnabled, micError, micVolume, micEnabled>>
          /\ UNCHANGED streamRef

\* C12: a step of one check leaves the statuses, error messages and results
\* of the other two checks unchanged and never replaces or drops the media
\* stream the other check holds.
ChecksIndependent == [][IndependentStep]_vars

SamplingWindowStep ==
    \A a \in 1..Len(micAttempts), volume \in Volumes :
        MicFrame(a, volume) =>
            IF micAttempts[a].pc = "settled"
            THEN /\ ~micAttempts'[a].raf
                 /\ micAttempts'[a].maxVolume = micAttempts[a].maxVolume
                 /\ micVolume' = micVolume
            ELSE mounted =>
                 /\ micAttempts'[a].raf
                 /\ micVolume' = normalizedVolume(volume)

\* C13: the animation-frame callback of a microphone attempt whose verdict
\* timer has fired reads no sample, leaves micVolume alone and does not
\* schedule itself again; until that timer fires, while the component is
\* mounted, every callback of the attempt samples and schedules itself again.
SamplingStopsWithWindow == [][SamplingWindowStep]_vars

StableStep ==
    (mounted /\ mounted') =>
        /\ \A c \in Checks : testStatus[c] = "passed" => testStatus'[c] = "passed"
        /\ ~view.startDisabled => ~view'.startDisabled

\* C14: while the page is mounted a status that is "passed" stays "passed"
\* and the Start Interview button, once enabled, stays enabled.
ReadinessStable == [][StableStep]_vars

\* The browser's side of an access request: getUserMedia settles the camera
\* request, one way or the other.
CameraRequestSettles ==
    \/ \E s \in CoarseCameraSettings : CameraGranted(s[1], s[2], s[3])
    \/ \E error \in Rejections : CameraDenied(error)

\* getUserMedia settles the request of microphone attempt a.
MicRequestSettles(a) ==
    \/ \E volume \in CoarseVolumes : MicGranted(a, volume)
    \/ \E error \in Rejections : MicDenied(a, error)

\* The 3000 ms timer of the network check fires.
NetworkTimerFiresSome ==
    \E draw \in RandomDraws : NetworkTimerFires(draw[1], draw[2], draw[3])

\* The program under an environment that settles every access request and
\* fires every timer that stays armed.
SpecFair ==
    /\ Init
    /\ [][Next]_vars
    /\ WF_vars(CameraRequestSettles)
    /\ \A a \in 1..MaxStarts : WF_vars(MicRequestSettles(a))
    /\ \A a \in 1..MaxStarts : WF_vars(MicTimerFires(a))
    /\ WF_vars(NetworkTimerFiresSome)

Verdict(c) == testStatus[c] \in {"passed", "failed"}

\* C15: while the component stays mounted, and with every access request
\* settling and every armed timer firing, each check whose status is
\* "testing" later shows "passed" or "failed"; the only way out without a
\* verdict is the component being unmounted.
TestingLeadsToVerdict ==
    \A c \in Checks : (testStatus[c] = "testing") ~> (Verdict(c) \/ ~mounted)

\* All three checks have been started and have their verdicts on a mounted
\* component with nothing pending, the microphone's by the timer's quiet
\* branch.
TestingLeadsToVerdictWitness ==
    /\ mounted
    /\ \A c \in Checks : Verdict(c)
    /\ testStatus.microphone = "failed"
    /\ micError = "Microphone input too quiet (below -40 dB)"
    /\ cameraRequests = 0
    /\ MicInFlight = {}
    /\ timers = <<>>

NetworkRuns == {i \in 1..Len(timers) : timers[i] = <<"net", 0>>}

NetworkNeverFails ==
    /\ testStatus.network \in {"idle", "testing", "passed"}
    /\ networkError = ""
    /\ Cardinality(NetworkRuns) <= 1
    /\ NetworkRuns # {} <=> testStatus.network = "testing"

NetworkOnceStep ==
    /\ (testStatus'.network = "testing" /\ testStatus.network # "testing") =>
           testStatus.network = "idle"
    /\ Cardinality(NetworkRuns') > Cardinality(NetworkRuns) =>
           testStatus.network = "idle"
    /\ testStatus.network = "testing" =>
           testStatus'.network \in {"testing", "passed"}
    /\ testStatus.network = "passed" => testStatus'.network = "passed"

\* C16: the network check starts only from status "idle" and the status
\* never returns to "idle", so it runs at most once per page view; at most
\* one run's timer is ever pending, exactly while the status is "testing";
\* the status is only ever "idle", "testing" or "passed" and networkError
\* stays empty.
NetworkRunsOnceNeverFails ==
    /\ []NetworkNeverFails
    /\ [][NetworkOnceStep]_vars

\* The network check ran to its end.
NetworkRunsOnceNeverFailsWitness ==
    /\ testStatus.network = "passed"
    /\ Len(networkResults) = 1
    /\ networkError = ""
    /\ NetworkRuns = {}
====
